---- MODULE Spec2Model ----
(***************************************************************************)
(* Model of src/bot.py: the address book (Field/Phone/Birthday, Record,    *)
(* AddressBook), the command handlers wrapped by input_error, and the      *)
(* command loop of main().                                                 *)
(*                                                                         *)
(* A Python str is a sequence of characters; a character is a one-element  *)
(* TLA+ string, and "sup2" stands for U+00B2 SUPERSCRIPT TWO.              *)
(* An exception is a record [type, msg]; NoExc means "returned normally".  *)
(***************************************************************************)
EXTENDS Integers, Sequences, FiniteSets, TLC

VARIABLES book, op, args, out, exc, result, compared, days, today, pc, command

vars == <<book, op, args, out, exc, result, compared, days, today, pc, command>>

-----------------------------------------------------------------------------
(* Bounds of the model *)

MaxPhones == 3
MaxBookPhones == 2
MaxLoopPhones == 1
MaxWindow == 1
FirstYear == 2023
NumYears == 2
FirstDays == 2

(* Program constants *)

PhoneLen == 10
DefaultDays == 7
Monday == 0
Saturday == 5

-----------------------------------------------------------------------------
(* Strings *)

Rep(c, n) == [i \in 1..n |-> c]

AsciiDigits == {"0", "1", "2", "3", "4", "5", "6", "7", "8", "9"}

\* Characters with Numeric_Type=Digit that are not decimal digits.
OtherDigits == {"sup2"}

Whitespace == {" ", "\t"}

\* str.isdigit(): non-empty and every character has Numeric_Type Digit or
\* Decimal, which includes the superscript digits.
isdigit(s) == Len(s) > 0 /\ \A i \in 1..Len(s) : s[i] \in AsciiDigits \cup OtherDigits

\* The cased letters that occur in the inputs, upper case and lower case.
UpperLetters == <<"A", "B", "C", "D", "E", "H", "I", "L", "O", "S", "T", "X">>
LowerLetters == <<"a", "b", "c", "d", "e", "h", "i", "l", "o", "s", "t", "x">>

lowerChar(c) ==
    IF \E i \in 1..Len(UpperLetters) : UpperLetters[i] = c
    THEN LowerLetters[CHOOSE i \in 1..Len(UpperLetters) : UpperLetters[i] = c]
    ELSE c

\* str.lower()
lower(s) == [i \in 1..Len(s) |-> lowerChar(s[i])]

RECURSIVE stripLeft(_)
stripLeft(s) ==
    IF Len(s) > 0 /\ s[1] \in Whitespace THEN stripLeft(Tail(s)) ELSE s

RECURSIVE stripRight(_)
stripRight(s) ==
    IF Len(s) > 0 /\ s[Len(s)] \in Whitespace
    THEN stripRight(SubSeq(s, 1, Len(s) - 1))
    ELSE s

\* str.strip()
strip(s) == stripRight(stripLeft(s))

\* str.split() without arguments: the maximal runs of non-whitespace.
RECURSIVE splitFrom(_, _, _)
splitFrom(s, cur, acc) ==
    IF Len(s) = 0
    THEN IF Len(cur) > 0 THEN Append(acc, cur) ELSE acc
    ELSE IF s[1] \in Whitespace
         THEN splitFrom(Tail(s), <<>>, IF Len(cur) > 0 THEN Append(acc, cur) ELSE acc)
         ELSE splitFrom(Tail(s), Append(cur, s[1]), acc)

split(s) == splitFrom(s, <<>>, <<>>)

-----------------------------------------------------------------------------
(* Exceptions *)

NoExc == [type |-> "", msg |-> ""]
Raise(t, m) == [type |-> t, msg |-> m]
Raised(e) == e.type # ""

MsgValueError == "Give me name and correct format of phone (10 digits) please."
MsgKeyError == "No contact found."
MsgIndexError == "Enter username."

\* The characters of MsgValueError, for the places that treat it as a str.
MsgValueErrorChars ==
    <<"G", "i", "v", "e", " ", "m", "e", " ", "n", "a", "m", "e", " ",
      "a", "n", "d", " ", "c", "o", "r", "r", "e", "c", "t", " ",
      "f", "o", "r", "m", "a", "t", " ", "o", "f", " ",
      "p", "h", "o", "n", "e", " ", "(", "1", "0", " ",
      "d", "i", "g", "i", "t", "s", ")", " ",
      "p", "l", "e", "a", "s", "e", ".">>

\* input_error: what the wrapper returns for the outcome of the wrapped call.
input_error(r) ==
    IF ~Raised(r.exc) THEN r.ret
    ELSE IF r.exc.type = "ValueError" THEN MsgValueError
    ELSE IF r.exc.type = "KeyError" THEN MsgKeyError
    ELSE IF r.exc.type = "IndexError" THEN MsgIndexError
    ELSE r.exc.msg

-----------------------------------------------------------------------------
(* Field, Phone *)

\* Phone.__init__
Phone(value) ==
    IF ~isdigit(value) \/ Len(value) # PhoneLen
    THEN [exc |-> Raise("ValueError", "Invalid phone number format"), value |-> <<>>]
    ELSE [exc |-> NoExc, value |-> value]

-----------------------------------------------------------------------------
(* datetime.date *)

Date(y, m, d) == [year |-> y, month |-> m, day |-> d]

is_leap(y) == y % 4 = 0 /\ (y % 100 # 0 \/ y % 400 = 0)

days_in_month(y, m) ==
    IF m = 2 THEN (IF is_leap(y) THEN 29 ELSE 28)
    ELSE IF m \in {4, 6, 9, 11} THEN 30 ELSE 31

days_before_year(y) ==
    365 * (y - 1) + ((y - 1) \div 4) - ((y - 1) \div 100) + ((y - 1) \div 400)

RECURSIVE days_before_month(_, _)
days_before_month(y, m) ==
    IF m = 1 THEN 0 ELSE days_before_month(y, m - 1) + days_in_month(y, m - 1)

\* date.toordinal()
toordinal(d) == days_before_year(d.year) + days_before_month(d.year, d.month) + d.day

\* date.weekday(): Monday is 0, Sunday is 6.
weekday(d) == (toordinal(d) + 6) % 7

\* (a - b).days
daysBetween(a, b) == toordinal(a) - toordinal(b)

\* a < b on dates
dateLess(a, b) == toordinal(a) < toordinal(b)

nextDay(d) ==
    IF d.day < days_in_month(d.year, d.month) THEN Date(d.year, d.month, d.day + 1)
    ELSE IF d.month < 12 THEN Date(d.year, d.month + 1, 1)
    ELSE Date(d.year + 1, 1, 1)

\* d + timedelta(days=n), n >= 0
RECURSIVE addDays(_, _)
addDays(d, n) == IF n = 0 THEN d ELSE addDays(nextDay(d), n - 1)

\* replace(year=y) that clamps a day the year lacks to the month's last day.
replaceYear_clamp(d, y) ==
    [exc |-> NoExc,
     value |-> Date(y, d.month, IF d.day > days_in_month(y, d.month)
                                THEN days_in_month(y, d.month) ELSE d.day)]

\* date.replace(year=y): ValueError when the day does not exist in year y.
replaceYear(d, y) ==
    IF d.day > days_in_month(y, d.month)
    THEN [exc |-> Raise("ValueError", "day is out of range for month"), value |-> d]
    ELSE [exc |-> NoExc, value |-> Date(y, d.month, d.day)]

DigitSeq == <<"0", "1", "2", "3", "4", "5", "6", "7", "8", "9">>

digitChar(n) == DigitSeq[n + 1]

digitVal(c) == (CHOOSE i \in 1..10 : DigitSeq[i] = c) - 1

RECURSIVE intOf(_)
intOf(s) == IF Len(s) = 0 THEN 0 ELSE 10 * intOf(SubSeq(s, 1, Len(s) - 1)) + digitVal(s[Len(s)])

allAscii(s) == \A i \in 1..Len(s) : s[i] \in AsciiDigits

\* date.strftime('%d.%m.%Y') for a four-digit year
strftime(d) ==
    <<digitChar(d.day \div 10), digitChar(d.day % 10), ".",
      digitChar(d.month \div 10), digitChar(d.month % 10), ".",
      digitChar(d.year \div 1000), digitChar((d.year \div 100) % 10),
      digitChar((d.year \div 10) % 10), digitChar(d.year % 10)>>

\* The fields of s between the "." separators.
RECURSIVE fieldsFrom(_, _, _)
fieldsFrom(s, cur, acc) ==
    IF Len(s) = 0 THEN Append(acc, cur)
    ELSE IF s[1] = "." THEN fieldsFrom(Tail(s), <<>>, Append(acc, cur))
    ELSE fieldsFrom(Tail(s), Append(cur, s[1]), acc)

\* %d: 3[0-1] | [1-2]\d | 0[1-9] | [1-9] | " "[1-9]
dayField(f) ==
    \/ Len(f) = 2 /\ allAscii(f) /\ intOf(f) \in 1..31
    \/ Len(f) = 1 /\ allAscii(f) /\ intOf(f) \in 1..9
    \/ Len(f) = 2 /\ f[1] = " " /\ allAscii(Tail(f)) /\ intOf(Tail(f)) \in 1..9

\* %m: 1[0-2] | 0[1-9] | [1-9]
monthField(f) ==
    \/ Len(f) = 2 /\ allAscii(f) /\ intOf(f) \in 1..12
    \/ Len(f) = 1 /\ allAscii(f) /\ intOf(f) \in 1..9

\* %Y: \d\d\d\d
yearField(f) == Len(f) = 4 /\ allAscii(f)

\* datetime.strptime(value, "%d.%m.%Y").date()
strptime(value) ==
    LET f == fieldsFrom(value, <<>>, <<>>)
        bad == [exc |-> Raise("ValueError", "does not match format"), value |-> Date(0, 0, 0)]
    IN  IF Len(f) # 3 THEN bad
        ELSE IF ~(dayField(f[1]) /\ monthField(f[2]) /\ yearField(f[3])) THEN bad
        ELSE LET d == intOf(stripLeft(f[1]))
                 m == intOf(f[2])
                 y == intOf(f[3])
             IN  IF y < 1 \/ d > days_in_month(y, m) THEN bad
                 ELSE [exc |-> NoExc, value |-> Date(y, m, d)]

\* Birthday.__init__
Birthday(value) ==
    LET r == strptime(value)
    IN  IF Raised(r.exc)
        THEN [exc |-> Raise("ValueError", "Invalid date format. Use DD.MM.YYYY"), value |-> r.value]
        ELSE [exc |-> NoExc, value |-> r.value]

-----------------------------------------------------------------------------
(* Record: phones is the list of the Phone values, birthday is <<>> for    *)
(* None and <<date>> otherwise.                                            *)

\* Record.__init__
Record(name) == [name |-> name, phones |-> <<>>, birthday |-> <<>>]

\* Record.add_phone
add_phone(r, phone) ==
    IF ~isdigit(phone) \/ Len(phone) # PhoneLen
    THEN [exc |-> Raise("ValueError", "Invalid phone number format"), rec |-> r]
    ELSE LET p == Phone(phone)
         IN  IF Raised(p.exc) THEN [exc |-> p.exc, rec |-> r]
             ELSE [exc |-> NoExc, rec |-> [r EXCEPT !.phones = Append(@, p.value)]]

\* Record.add_birthday
record_add_birthday(r, birthday) ==
    LET b == Birthday(birthday)
    IN  IF Raised(b.exc) THEN [exc |-> b.exc, rec |-> r]
        ELSE [exc |-> NoExc, rec |-> [r EXCEPT !.birthday = <<b.value>>]]

\* The loop "for p in self.phones: if p.value == phone": the index of the
\* first iteration whose test succeeds, 0 when the loop runs to its end.
RECURSIVE scanPhones(_, _, _)
scanPhones(phones, phone, i) ==
    IF i > Len(phones) THEN 0
    ELSE IF phones[i] = phone THEN i
    ELSE scanPhones(phones, phone, i + 1)

removeAt(s, i) == SubSeq(s, 1, i - 1) \o SubSeq(s, i + 1, Len(s))

\* remove_phone taking the last matching entry instead of the first.
remove_phone_last(r, phone) ==
    LET hits == {k \in 1..Len(r.phones) : r.phones[k] = phone}
    IN  IF hits = {} THEN [exc |-> NoExc, rec |-> r]
        ELSE LET i == CHOOSE k \in hits : \A h \in hits : h <= k
             IN  [exc |-> NoExc, rec |-> [r EXCEPT !.phones = removeAt(@, i)]]

\* Record.remove_phone. list.remove(p) compares by identity (Phone defines no
\* __eq__), so it removes the object the loop stands on.
remove_phone(r, phone) ==
    LET i == scanPhones(r.phones, phone, 1)
    IN  IF i = 0 THEN [exc |-> NoExc, rec |-> r]
        ELSE [exc |-> NoExc, rec |-> [r EXCEPT !.phones = removeAt(@, i)]]

\* edit_phone without the break: every matching entry is rewritten.
edit_phone_all(r, old_phone, new_phone) ==
    LET i == scanPhones(r.phones, old_phone, 1)
    IN  IF i = 0
        THEN [exc |-> Raise("ValueError", "Old phone number not found"), rec |-> r]
        ELSE IF ~isdigit(new_phone) \/ Len(new_phone) # PhoneLen
        THEN [exc |-> Raise("ValueError", "Invalid new phone number format"), rec |-> r]
        ELSE [exc |-> NoExc,
              rec |-> [r EXCEPT !.phones = [k \in 1..Len(@) |->
                                               IF @[k] = old_phone THEN new_phone ELSE @[k]]]]

\* Record.edit_phone
edit_phone(r, old_phone, new_phone) ==
    LET i == scanPhones(r.phones, old_phone, 1)
    IN  IF i = 0
        THEN [exc |-> Raise("ValueError", "Old phone number not found"), rec |-> r]
        ELSE IF ~isdigit(new_phone) \/ Len(new_phone) # PhoneLen
        THEN [exc |-> Raise("ValueError", "Invalid new phone number format"), rec |-> r]
        ELSE [exc |-> NoExc, rec |-> [r EXCEPT !.phones[i] = new_phone]]

\* Record.find_phone: TRUE when a Phone is returned, FALSE for None.
find_phone(r, phone) == scanPhones(r.phones, phone, 1) # 0

-----------------------------------------------------------------------------------------------------------------------------------------------------
(* AddressBook: data is the sequence of the records in insertion order,    *)
(* as a dict keeps them; the key of a record is its name.                  *)

RECURSIVE keyIndex(_, _, _)
keyIndex(b, name, i) ==
    IF i > Len(b) THEN 0
    ELSE IF b[i].name = name THEN i
    ELSE keyIndex(b, name, i + 1)

\* AddressBook.add_record: self.data[key] = record keeps the place of a key
\* that is present and appends a new key.
add_record(b, r) ==
    LET i == keyIndex(b, r.name, 1)
    IN  IF i # 0 THEN [b EXCEPT ![i] = r] ELSE Append(b, r)

\* AddressBook.find: the index of the record returned, 0 for None.
find(b, name) == keyIndex(b, name, 1)

\* AddressBook.delete
delete(b, name) ==
    LET i == keyIndex(b, name, 1)
    IN  IF i # 0 THEN removeAt(b, i) ELSE b

\* prepare_users
prepare_users(records) ==
    LET hasBirthday(r) == Len(r.birthday) > 0
    IN  SelectSeq(records, hasBirthday)

\* find_next_weekday
find_next_weekday(d, wd) ==
    LET days_ahead == wd - weekday(d)
    IN  addDays(d, IF days_ahead <= 0 THEN days_ahead + 7 ELSE days_ahead)

\* Lines 98-101 with "<=" for "<": a birthday that is today moves a year on.
birthday_this_year_le(birthday, t) ==
    LET r1 == replaceYear(birthday, t.year)
    IN  IF Raised(r1.exc) THEN r1
        ELSE IF ~dateLess(t, r1.value) THEN replaceYear(r1.value, t.year + 1)
        ELSE r1

\* Lines 98-101: birthday_this_year as it stands when line 103 compares it.
birthday_this_year(birthday, t) ==
    LET r1 == replaceYear(birthday, t.year)
    IN  IF Raised(r1.exc) THEN r1
        ELSE IF dateLess(r1.value, t) THEN replaceYear(r1.value, t.year + 1)
        ELSE r1

\* Lines 104-105 with ">" for ">=": a Saturday is not moved.
congratulation_date_gt(occ) ==
    IF weekday(occ) > Saturday THEN find_next_weekday(occ, Monday) ELSE occ

\* Lines 103-105: the congratulation date of an occurrence inside the window.
congratulation_date(occ) ==
    IF weekday(occ) >= Saturday THEN find_next_weekday(occ, Monday) ELSE occ

\* find_upcoming_birthdays: the loop from record i on. upcoming is the list
\* built so far; compared lists, for every record that reached line 103, the
\* value of birthday_this_year there.
RECURSIVE find_upcoming_from(_, _, _, _, _, _)
find_upcoming_from(recs, i, t, n, upcoming, cmp) ==
    IF i > Len(recs) THEN [exc |-> NoExc, value |-> upcoming, compared |-> cmp]
    ELSE LET o == birthday_this_year(recs[i].birthday[1], t)
         IN  IF Raised(o.exc) THEN [exc |-> o.exc, value |-> <<>>, compared |-> cmp]
             ELSE LET d == daysBetween(o.value, t)
                      c == [name |-> recs[i].name, occurrence |-> o.value]
                      e == [name |-> recs[i].name,
                            congratulation_date |-> strftime(congratulation_date(o.value))]
                  IN  find_upcoming_from(recs, i + 1, t, n,
                          IF 0 <= d /\ d <= n THEN Append(upcoming, e) ELSE upcoming,
                          Append(cmp, c))

\* AddressBook.get_upcoming_birthdays, with datetime.today().date() = t
get_upcoming_birthdays(b, n, t) ==
    find_upcoming_from(prepare_users(b), 1, t, n, <<>>, <<>>)

-----------------------------------------------------------------------------
(* Command handlers. A body returns [exc, ret, book, ...]: the exception   *)
(* it raises (NoExc when it returns), the text it returns, and the book as *)
(* it leaves it. The decorated handler is wrap(body).                      *)

wrap(r) == [r EXCEPT !.exc = NoExc, !.ret = input_error(r)]

setRecord(b, i, r) == [b EXCEPT ![i] = r]

unpackError == Raise("ValueError", "not enough or too many values to unpack")

\* add_contact without the lookup: a fresh Record is stored on every call.
add_contact_fresh(a, b) ==
    IF Len(a) < 2 THEN [exc |-> unpackError, ret |-> "", book |-> b]
    ELSE LET name == a[1]
             phone == a[2]
             b1 == add_record(b, Record(name))
             i == find(b1, name)
         IN  IF Len(phone) > 0
             THEN LET r == add_phone(b1[i], phone)
                  IN  IF Raised(r.exc) THEN [exc |-> r.exc, ret |-> "", book |-> b1]
                      ELSE [exc |-> NoExc, ret |-> "Contact updated.",
                            book |-> setRecord(b1, i, r.rec)]
             ELSE [exc |-> NoExc, ret |-> "Contact updated.", book |-> b1]

\* add_contact, undecorated
add_contact_body(a, b) ==
    IF Len(a) < 2 THEN [exc |-> unpackError, ret |-> "", book |-> b]
    ELSE LET name == a[1]
             phone == a[2]
             found == find(b, name)
             b1 == IF found = 0 THEN add_record(b, Record(name)) ELSE b
             message == IF found = 0 THEN "Contact added." ELSE "Contact updated."
             i == find(b1, name)
         IN  IF Len(phone) > 0
             THEN LET r == add_phone(b1[i], phone)
                  IN  IF Raised(r.exc) THEN [exc |-> r.exc, ret |-> "", book |-> b1]
                      ELSE [exc |-> NoExc, ret |-> message, book |-> setRecord(b1, i, r.rec)]
             ELSE [exc |-> NoExc, ret |-> message, book |-> b1]

add_contact(a, b) == wrap(add_contact_body(a, b))

\* change_contact, undecorated
change_contact_body(a, b) ==
    IF Len(a) < 3
    THEN [exc |-> Raise("Exception", "Enter name, old phone number, and new phone number."),
          ret |-> "", book |-> b]
    ELSE IF Len(a) > 3 THEN [exc |-> unpackError, ret |-> "", book |-> b]
    ELSE LET i == find(b, a[1])
         IN  IF i = 0 THEN [exc |-> NoExc, ret |-> "Contact not found.", book |-> b]
             ELSE IF ~find_phone(b[i], a[2])
             THEN [exc |-> NoExc, ret |-> "The old number is not correct", book |-> b]
             ELSE LET r == edit_phone(b[i], a[2], a[3])
                  IN  IF Raised(r.exc) THEN [exc |-> NoExc, ret |-> r.exc.msg, book |-> b]
                      ELSE [exc |-> NoExc, ret |-> "Contact updated successfully",
                            book |-> setRecord(b, i, r.rec)]

change_contact(a, b) == wrap(change_contact_body(a, b))

\* phone_contact, undecorated; the text is given by its fixed beginning.
phone_contact_body(a, b) ==
    IF Len(a) < 1 THEN [exc |-> Raise("IndexError", "list index out of range"), ret |-> "", book |-> b]
    ELSE IF find(b, a[1]) # 0 THEN [exc |-> NoExc, ret |-> "Phone numbers for", book |-> b]
    ELSE [exc |-> NoExc, ret |-> "No contact found with username", book |-> b]

phone_contact(a, b) == wrap(phone_contact_body(a, b))

\* show_contact, undecorated
show_contact_body(a, b) ==
    IF Len(a) < 1 THEN [exc |-> Raise("IndexError", ""), ret |-> "", book |-> b]
    ELSE IF find(b, a[1]) # 0 THEN [exc |-> NoExc, ret |-> "Contact name:", book |-> b]
    ELSE [exc |-> NoExc, ret |-> "No contact found with username", book |-> b]

show_contact(a, b) == wrap(show_contact_body(a, b))

\* add_birthday, undecorated
add_birthday_body(a, b) ==
    IF Len(a) < 2
    THEN [exc |-> Raise("Exception", "Add a user name and birthday please."), ret |-> "", book |-> b]
    ELSE IF Len(a) > 2 THEN [exc |-> unpackError, ret |-> "", book |-> b]
    ELSE LET i == find(b, a[1])
         IN  IF i = 0 THEN [exc |-> NoExc, ret |-> "Contact not found.", book |-> b]
             ELSE LET r == record_add_birthday(b[i], a[2])
                  IN  IF Raised(r.exc)
                      THEN [exc |-> NoExc, ret |-> "Invalid date format. Use DD.MM.YYYY", book |-> b]
                      ELSE [exc |-> NoExc, ret |-> "Birthday added for", book |-> setRecord(b, i, r.rec)]

add_birthday(a, b) == wrap(add_birthday_body(a, b))

\* show_birthday, undecorated
show_birthday_body(a, b) ==
    IF Len(a) < 1 THEN [exc |-> Raise("IndexError", ""), ret |-> "", book |-> b]
    ELSE LET i == find(b, a[1])
         IN  IF i = 0 THEN [exc |-> NoExc, ret |-> "Contact not found.", book |-> b]
             ELSE IF Len(b[i].birthday) > 0 THEN [exc |-> NoExc, ret |-> "'s birthday:", book |-> b]
             ELSE [exc |-> NoExc, ret |-> "has no birthday set.", book |-> b]

show_birthday(a, b) == wrap(show_birthday_body(a, b))

\* birthdays, undecorated; value is the list the text is built from.
birthdays_body(a, b, t) ==
    LET u == get_upcoming_birthdays(b, DefaultDays, t)
    IN  IF Raised(u.exc)
        THEN [exc |-> u.exc, ret |-> "", book |-> b, value |-> <<>>, compared |-> u.compared]
        ELSE IF Len(u.value) > 0
        THEN [exc |-> NoExc, ret |-> "Upcoming birthdays:", book |-> b,
              value |-> u.value, compared |-> u.compared]
        ELSE [exc |-> NoExc, ret |-> "No upcoming birthdays within the next week.", book |-> b,
              value |-> <<>>, compared |-> u.compared]

birthdays(a, b, t) == wrap(birthdays_body(a, b, t))

\* parse_input, undecorated: the tuple (cmd, *args)
parse_input_body(user_input) ==
    LET parts == split(user_input)
    IN  IF Len(parts) = 0 THEN [exc |-> unpackError, kind |-> "tuple", value |-> <<>>]
        ELSE [exc |-> NoExc, kind |-> "tuple",
              value |-> <<lower(strip(parts[1]))>> \o Tail(parts)]

\* parse_input without the decorator: the ValueError reaches the caller.
parse_input_raw(user_input) == parse_input_body(user_input)

\* parse_input: a ValueError of the body becomes the str MsgValueError.
parse_input(user_input) ==
    LET r == parse_input_body(user_input)
    IN  IF Raised(r.exc) THEN [exc |-> NoExc, kind |-> "str", value |-> MsgValueErrorChars]
        ELSE r

\* What "command, *args = x" iterates over: the items of a tuple, the
\* one-character strings of a str.
items(x) ==
    IF x.kind = "str" THEN [i \in 1..Len(x.value) |-> <<x.value[i]>>] ELSE x.value

-----------------------------------------------------------------------------
(* Inputs *)

Ann == <<"A", "n", "n">>
Bob == <<"B", "o", "b">>
Names == {Ann, Bob}

P1 == Rep("1", PhoneLen)
P2 == Rep("2", PhoneLen)
PSup == Rep("sup2", PhoneLen)
PShort == Rep("1", PhoneLen - 1)
PAlpha == Rep("1", PhoneLen - 1) \o <<"x">>

PhoneInputs == {P1, P2, PSup, PShort, PAlpha}

DLeap == strftime(Date(2000, 2, 29))
DMarch == strftime(Date(2000, 3, 1))
DNoSuchDay == strftime(Date(2001, 2, 29))
DText == <<"x">>

DateInputs == {DLeap, DMarch, DNoSuchDay, DText}

\* Argument lists of add_contact and change_contact
AddArgs(names, phones) ==
    {<<>>} \cup {<<n>> : n \in names}
    \cup {<<n, p>> : n \in names, p \in phones \cup {<<>>}}
    \cup {<<n, P1, P2>> : n \in names}

ChangeArgs(names, phones) ==
    {<<n, P1>> : n \in names}
    \cup {<<n, o, p>> : n \in names, o \in phones, p \in phones}
    \cup {<<n, P1, P2, P1>> : n \in names}

-----------------------------------------------------------------------------
(* Calls of the methods and handlers, one at a time. op, args, out and exc *)
(* record the call, the text it returned and the exception it raised;      *)
(* result, compared and days record a birthday query.                      *)

Observe(o, a, m, e) ==
    /\ op' = o
    /\ args' = a
    /\ out' = m
    /\ exc' = e
    /\ result' = <<>>
    /\ compared' = <<>>
    /\ days' = 0
    /\ UNCHANGED <<today, pc, command>>

PhonesWithin(b, n) == \A i \in 1..Len(b) : Len(b[i].phones) <= n

\* book.add_record(Record(name))
CallAddRecord(name) ==
    /\ book' = add_record(book, Record(name))
    /\ Observe("add_record", <<name>>, "", NoExc)

\* book.delete(name)
CallDelete(name) ==
    /\ book' = delete(book, name)
    /\ Observe("delete", <<name>>, "", NoExc)

\* book.find(name).add_phone(phone)
CallAddPhone(name, phone) ==
    LET i == find(book, name)
    IN  /\ i # 0
        /\ LET r == add_phone(book[i], phone)
           IN  /\ book' = setRecord(book, i, r.rec)
               /\ PhonesWithin(book', MaxPhones)
               /\ Observe("add_phone", <<name, phone>>, "", r.exc)

\* book.find(name).remove_phone(phone)
CallRemovePhone(name, phone) ==
    LET i == find(book, name)
    IN  /\ i # 0
        /\ LET r == remove_phone(book[i], phone)
           IN  /\ book' = setRecord(book, i, r.rec)
               /\ Observe("remove_phone", <<name, phone>>, "", r.exc)

\* book.find(name).edit_phone(old_phone, new_phone)
CallEditPhone(name, old_phone, new_phone) ==
    LET i == find(book, name)
    IN  /\ i # 0
        /\ LET r == edit_phone(book[i], old_phone, new_phone)
           IN  /\ book' = setRecord(book, i, r.rec)
               /\ Observe("edit_phone", <<name, old_phone, new_phone>>, "", r.exc)

\* book.find(name).add_birthday(birthday)
CallAddBirthday(name, birthday) ==
    LET i == find(book, name)
    IN  /\ i # 0
        /\ LET r == record_add_birthday(book[i], birthday)
           IN  /\ book' = setRecord(book, i, r.rec)
               /\ Observe("add_birthday", <<name, birthday>>, "", r.exc)

\* add_contact(args, book), while no contact holds more than n phones
CallAddContact(a, n) ==
    LET r == add_contact(a, book)
    IN  /\ book' = r.book
        /\ PhonesWithin(book', n)
        /\ Observe("add_contact", a, r.ret, r.exc)

\* change_contact(args, book)
CallChangeContact(a) ==
    LET r == change_contact(a, book)
    IN  /\ book' = r.book
        /\ Observe("change_contact", a, r.ret, r.exc)

\* add_birthday(args, book)
CallAddBirthdayCmd(a) ==
    LET r == add_birthday(a, book)
    IN  /\ book' = r.book
        /\ Observe("add_birthday_cmd", a, r.ret, r.exc)

Quiet ==
    /\ op = ""
    /\ args = <<>>
    /\ out = ""
    /\ exc = NoExc
    /\ result = <<>>
    /\ compared = <<>>
    /\ days = 0
    /\ pc = "reading"
    /\ command = <<>>

\* One contact and the methods of Record and AddressBook.
InitRecord ==
    /\ book = <<>>
    /\ today = Date(FirstYear, 1, 1)
    /\ Quiet

NextRecord ==
    \/ CallAddRecord(Ann)
    \/ CallDelete(Ann)
    \/ \E p \in PhoneInputs : CallAddPhone(Ann, p)
    \/ \E p \in PhoneInputs : CallRemovePhone(Ann, p)
    \/ \E o \in PhoneInputs, p \in PhoneInputs : CallEditPhone(Ann, o, p)
    \/ \E d \in DateInputs : CallAddBirthday(Ann, d)
    \/ \E a \in AddArgs({Ann}, PhoneInputs) : CallAddContact(a, MaxPhones)
    \/ \E a \in ChangeArgs({Ann}, PhoneInputs) : CallChangeContact(a)

SpecRecord == InitRecord /\ [][NextRecord]_vars

\* Two contacts and the handlers that add to the directory.
BookPhones == {P1, P2, PShort}

InitBook ==
    /\ book = <<>>
    /\ today = Date(FirstYear, 1, 1)
    /\ Quiet

NextBook ==
    \/ \E a \in AddArgs(Names, BookPhones) : CallAddContact(a, MaxBookPhones)
    \/ \E n \in Names, d \in {DMarch, DText} : CallAddBirthdayCmd(<<n, d>>)
    \/ \E n \in Names : CallDelete(n)

SpecBook == InitBook /\ [][NextBook]_vars

-----------------------------------------------------------------------------
(* The birthday query. datetime.today() is the environment's clock; a run  *)
(* of the program is taken to see one date, chosen at the start.           *)

TodayYears == FirstYear..(FirstYear + NumYears - 1)

DayChoices == (1..FirstDays) \cup (28..31)

Todays ==
    {t \in {Date(y, m, d) : y \in TodayYears, m \in {1, 2, 3, 12}, d \in DayChoices} :
        t.day <= days_in_month(t.year, t.month)}

BirthdayInputs ==
    {strftime(Date(2000, 1, 1)), strftime(Date(1990, 1, 2)),
     DLeap, DMarch, strftime(Date(2000, 3, 2)), strftime(Date(2000, 12, 30)),
     strftime(Date(2000, 12, 31)), DNoSuchDay, DText}

WindowInputs == (0..MaxWindow) \cup {DefaultDays}

\* book.get_upcoming_birthdays(n)
CallGetUpcoming(n) ==
    LET u == get_upcoming_birthdays(book, n, today)
    IN  /\ op' = "get_upcoming_birthdays"
        /\ args' = <<>>
        /\ out' = ""
        /\ exc' = u.exc
        /\ result' = u.value
        /\ compared' = u.compared
        /\ days' = n
        /\ UNCHANGED <<book, today, pc, command>>

\* birthdays(args, book)
CallBirthdays ==
    LET r == birthdays(<<>>, book, today)
    IN  /\ op' = "birthdays"
        /\ args' = <<>>
        /\ out' = r.ret
        /\ exc' = r.exc
        /\ result' = r.value
        /\ compared' = r.compared
        /\ days' = DefaultDays
        /\ UNCHANGED <<book, today, pc, command>>

InitBday ==
    /\ book = <<>>
    /\ today \in Todays
    /\ Quiet

NextBday ==
    \/ \E n \in Names : CallAddRecord(n)
    \/ \E n \in Names, d \in BirthdayInputs : CallAddBirthday(n, d)
    \/ \E n \in WindowInputs : CallGetUpcoming(n)
    \/ CallBirthdays

SpecBday == InitBday /\ [][NextBday]_vars

-----------------------------------------------------------------------------
(* main: the command loop. pc is "reading" at input(), "stopped" after the *)
(* break, "crashed" when an exception leaves main.                         *)

CmdClose == <<"c", "l", "o", "s", "e">>
CmdExit == <<"e", "x", "i", "t">>
CmdHello == <<"h", "e", "l", "l", "o">>
CmdAdd == <<"a", "d", "d">>
CmdChange == <<"c", "h", "a", "n", "g", "e">>
CmdShow == <<"s", "h", "o", "w">>
CmdPhone == <<"p", "h", "o", "n", "e">>
CmdAll == <<"a", "l", "l">>
CmdAddBirthday == <<"a", "d", "d", "-", "b", "i", "r", "t", "h", "d", "a", "y">>
CmdShowBirthday == <<"s", "h", "o", "w", "-", "b", "i", "r", "t", "h", "d", "a", "y">>
CmdBirthdays == <<"b", "i", "r", "t", "h", "d", "a", "y", "s">>

\* One pass of the loop body after parse_input returned x: the text printed,
\* the book, whether the loop breaks, and the exception that leaves main.
main_body(x, b, t) ==
    LET quiet(m) == [exc |-> NoExc, ret |-> m, book |-> b, stop |-> FALSE,
                     value |-> <<>>, compared |-> <<>>, command |-> items(x)[1]]
        handled(r) == [exc |-> r.exc, ret |-> r.ret, book |-> r.book, stop |-> FALSE,
                       value |-> <<>>, compared |-> <<>>, command |-> items(x)[1]]
    IN  IF Raised(x.exc)
        THEN [exc |-> x.exc, ret |-> "", book |-> b, stop |-> FALSE,
              value |-> <<>>, compared |-> <<>>, command |-> <<>>]
        ELSE IF Len(items(x)) = 0
        THEN [exc |-> unpackError, ret |-> "", book |-> b, stop |-> FALSE,
              value |-> <<>>, compared |-> <<>>, command |-> <<>>]
        ELSE LET cmd == items(x)[1]
                 a == Tail(items(x))
             IN  IF cmd \in {CmdClose, CmdExit} THEN [quiet("Good bye!") EXCEPT !.stop = TRUE]
                 ELSE IF cmd = CmdHello THEN quiet("How can I help you?")
                 ELSE IF cmd = CmdAdd THEN handled(add_contact(a, b))
                 ELSE IF cmd = CmdChange THEN handled(change_contact(a, b))
                 ELSE IF cmd = CmdShow THEN handled(show_contact(a, b))
                 ELSE IF cmd = CmdPhone THEN handled(phone_contact(a, b))
                 ELSE IF cmd = CmdAll THEN quiet(IF Len(b) > 0 THEN "Contact name:" ELSE "")
                 ELSE IF cmd = CmdAddBirthday THEN handled(add_birthday(a, b))
                 ELSE IF cmd = CmdShowBirthday THEN handled(show_birthday(a, b))
                 ELSE IF cmd = CmdBirthdays
                 THEN LET r == birthdays(a, b, t)
                      IN  [handled(r) EXCEPT !.value = r.value, !.compared = r.compared]
                 ELSE quiet("Invalid command.")

\* " ".join(tokens)
RECURSIVE join(_)
join(tokens) ==
    IF Len(tokens) = 0 THEN <<>>
    ELSE IF Len(tokens) = 1 THEN tokens[1]
    ELSE tokens[1] \o <<" ">> \o join(Tail(tokens))

Foo == <<"f", "o", "o">>

\* The lines typed at the prompt.
Lines ==
    {join(l) : l \in
        {<<c>> : c \in {CmdClose, CmdExit, CmdHello, CmdAll, CmdBirthdays, Foo, P1}}
        \cup {<<c, Ann>> : c \in {CmdClose, CmdHello, CmdAll, CmdBirthdays, Foo}}
        \cup {<<CmdAdd>>, <<CmdAdd, Ann>>, <<CmdAdd, Ann, P1, P2>>}
        \cup {<<CmdAdd, Ann, p>> : p \in {P1, P2, PShort, PAlpha}}
        \cup {<<CmdChange>>, <<CmdChange, Ann>>, <<CmdChange, Ann, P1>>,
              <<CmdChange, Bob, P1, P2>>, <<CmdChange, Ann, P1, P2, P1>>}
        \cup {<<CmdChange, Ann, o, p>> : o \in {P1, P2}, p \in {P1, P2, PShort}}
        \cup {<<c>> \o a : c \in {CmdShow, CmdPhone, CmdShowBirthday},
                           a \in {<<>>, <<Ann>>, <<Bob>>, <<Ann, Bob>>}}
        \cup {<<CmdAddBirthday>>, <<CmdAddBirthday, Ann>>, <<CmdAddBirthday, Bob, DMarch>>,
              <<CmdAddBirthday, Ann, DMarch, DMarch>>}
        \cup {<<CmdAddBirthday, Ann, d>> : d \in DateInputs}}
    \cup {<<>>, <<" ", " ">>, <<"\t">>,
          <<" ">> \o CmdAdd \o <<" ", " ">> \o Ann \o <<"\t">> \o P1 \o <<" ">>,
          <<"A", "D", "D", " ">> \o Ann \o <<" ">> \o P2,
          <<"E", "x", "i", "t">>}

LoopTodays == {t \in Todays : t.month = 2 /\ t.day = 28}

\* user_input = input(...) and the rest of one pass of the loop
MainStep(user_input) ==
    /\ pc = "reading"
    /\ LET r == main_body(parse_input(user_input), book, today)
       IN  /\ book' = r.book
           /\ PhonesWithin(book', MaxLoopPhones)
           /\ op' = "main"
           /\ args' = <<>>
           /\ command' = r.command
           /\ out' = r.ret
           /\ exc' = r.exc
           /\ result' = r.value
           /\ compared' = r.compared
           /\ days' = 0
           /\ pc' = IF Raised(r.exc) THEN "crashed" ELSE IF r.stop THEN "stopped" ELSE "reading"
           /\ UNCHANGED today

Init ==
    /\ book = <<>>
    /\ today \in LoopTodays
    /\ Quiet

Next == \E user_input \in Lines : MainStep(user_input)

Spec == Init /\ [][Next]_vars

-----------------------------------------------------------------------------
(* Claims *)

\* The phone is ten characters, each one of 0..9.
TenDecimalDigits(s) == Len(s) = PhoneLen /\ \A k \in 1..Len(s) : s[k] \in AsciiDigits

\* The phones of the contact called name in directory b.
PhonesOf(b, name) == b[find(b, name)].phones

Least(S) == CHOOSE k \in S : \A h \in S : k <= h

\* C3: Record.edit_phone(old, new) changes at most one entry of the phone
\* sequence. When an entry equals old and new is a valid phone, the first such
\* entry and only that one takes the value new, at the same position, and the
\* length and the other entries are kept. When no entry equals old the call
\* fails with the phone-not-found error and the sequence is unchanged.
C3_EditPhoneStep ==
    op' = "edit_phone" =>
        LET before == PhonesOf(book, args'[1])
            after == PhonesOf(book', args'[1])
            old == args'[2]
            new == args'[3]
            hits == {k \in 1..Len(before) : before[k] = old}
        IN  /\ Len(after) = Len(before)
            /\ Cardinality({k \in 1..Len(before) : after[k] # before[k]}) <= 1
            /\ (hits # {} /\ TenDecimalDigits(new)) =>
                  /\ exc' = NoExc
                  /\ after[Least(hits)] = new
                  /\ \A k \in 1..Len(before) : k # Least(hits) => after[k] = before[k]
            /\ hits = {} =>
                  /\ exc'.type = "ValueError"
                  /\ exc'.msg = "Old phone number not found"
                  /\ after = before

C3_EditPhone == [][C3_EditPhoneStep]_vars

\* An edit succeeded on a contact holding old twice: the first entry is new,
\* the second is still old.
C3_Witness ==
    /\ op = "edit_phone"
    /\ exc = NoExc
    /\ args[2] # args[3]
    /\ Len(PhonesOf(book, args[1])) >= 2
    /\ PhonesOf(book, args[1])[1] = args[3]
    /\ PhonesOf(book, args[1])[2] = args[2]

\* C5: every phone stored in every contact is a string of exactly 10
\* characters, each a decimal digit.
C5_PhonesAreTenDigits ==
    \A i \in 1..Len(book) : \A k \in 1..Len(book[i].phones) :
        TenDecimalDigits(book[i].phones[k])

\* C6: Record.remove_phone(raw) never raises. With no entry equal to raw the
\* sequence is unchanged; otherwise exactly the first such entry is removed
\* and the remaining entries, later duplicates included, keep their values
\* and relative order.
C6_RemovePhoneStep ==
    op' = "remove_phone" =>
        LET before == PhonesOf(book, args'[1])
            after == PhonesOf(book', args'[1])
            hits == {k \in 1..Len(before) : before[k] = args'[2]}
        IN  /\ exc' = NoExc
            /\ hits = {} => after = before
            /\ hits # {} =>
                  /\ Len(after) = Len(before) - 1
                  /\ \A k \in 1..Len(after) :
                        after[k] = IF k < Least(hits) THEN before[k] ELSE before[k + 1]

C6_RemovePhone == [][C6_RemovePhoneStep]_vars

\* A removal left a later duplicate of raw behind an entry that differs.
C6_Witness ==
    /\ op = "remove_phone"
    /\ exc = NoExc
    /\ Len(PhonesOf(book, args[1])) = 2
    /\ PhonesOf(book, args[1])[1] # args[2]
    /\ PhonesOf(book, args[1])[2] = args[2]

\* C4: add issued for a name already present keeps exactly one record under
\* that name and the number of keys; the existing phones keep their values
\* and order, a new phone only being appended, and the birthday is kept.
C4_AddExistingStep ==
    (op' = "add_contact" /\ Len(args') >= 1 /\ find(book, args'[1]) # 0) =>
        LET name == args'[1]
            before == book[find(book, name)]
            after == book'[find(book', name)]
        IN  /\ Len(book') = Len(book)
            /\ Cardinality({k \in 1..Len(book') : book'[k].name = name}) = 1
            /\ Len(after.phones) \in {Len(before.phones), Len(before.phones) + 1}
            /\ SubSeq(after.phones, 1, Len(before.phones)) = before.phones
            /\ after.birthday = before.birthday

C4_AddExisting == [][C4_AddExistingStep]_vars

\* An add updated a contact that has a birthday and now holds two phones.
C4_Witness ==
    /\ op = "add_contact"
    /\ out = "Contact updated."
    /\ Len(args) >= 2
    /\ Len(book[find(book, args[1])].birthday) = 1
    /\ Len(book[find(book, args[1])].phones) = 2
    /\ book[find(book, args[1])].phones[2] = args[2]

\* C10: an add that returns an error message leaves the directory unchanged.
C10_FailedAddStep ==
    (op' = "add_contact" /\ out' \notin {"Contact added.", "Contact updated."}) =>
        book' = book

C10_FailedAddUnchanged == [][C10_FailedAddStep]_vars


\* The birthday of the contact called name.
BirthdayOf(name) == book[find(book, name)].birthday[1]

\* The birthday's month and day in year y.
InYear(b, y) == Date(y, b.month, b.day)

\* The next occurrence as the claims define it: the month/day in today's
\* year, or in the following year when that date is strictly before today.
NextOccurrence(b, t) ==
    IF dateLess(InYear(b, t.year), t) THEN InYear(b, t.year + 1) ELSE InYear(b, t.year)

Returned(name) == \E k \in 1..Len(result) : result[k].name = name

\* C1: get_upcoming_birthdays(days) returns an entry for a contact if and
\* only if the contact has a birthday and its next occurrence lies d days
\* after today with 0 <= d <= days; each contact appears at most once.
C1_WindowIff ==
    op = "get_upcoming_birthdays" =>
        /\ \A i \in 1..Len(book) :
              Returned(book[i].name) <=>
                  /\ Len(book[i].birthday) = 1
                  /\ daysBetween(NextOccurrence(book[i].birthday[1], today), today) \in 0..days
        /\ \A k, l \in 1..Len(result) : result[k].name = result[l].name => k = l

\* C2: the congratulation date of every returned entry is the occurrence
\* when that is Monday to Friday, the occurrence plus 2 days when it is a
\* Saturday and plus 1 day when it is a Sunday; it is never a Saturday or a
\* Sunday.
C2_WeekendShift ==
    op \in {"get_upcoming_birthdays", "birthdays"} =>
        \A k \in 1..Len(result) :
            \E c \in 1..Len(compared) :
                /\ compared[c].name = result[k].name
                /\ LET occ == compared[c].occurrence
                       shift == IF weekday(occ) = 5 THEN 2
                                ELSE IF weekday(occ) = 6 THEN 1 ELSE 0
                   IN  /\ result[k].congratulation_date = strftime(addDays(occ, shift))
                       /\ weekday(strptime(result[k].congratulation_date).value) \in 0..4

\* One entry was moved from a Saturday, another from a Sunday.
C2_Witness ==
    /\ op = "get_upcoming_birthdays"
    /\ Len(result) = 2
    /\ \E c \in 1..Len(compared) :
          /\ weekday(compared[c].occurrence) = 5
          /\ Returned(compared[c].name)
    /\ \E c \in 1..Len(compared) :
          /\ weekday(compared[c].occurrence) = 6
          /\ Returned(compared[c].name)

\* C7: the occurrence compared against the window is never before today:
\* the month/day in today's year when that is today or later, the same
\* month/day of the next year when it is strictly before today.
C7_OccurrenceNotPast ==
    op \in {"get_upcoming_birthdays", "birthdays"} =>
        \A c \in 1..Len(compared) :
            LET b == BirthdayOf(compared[c].name)
                occ == compared[c].occurrence
            IN  /\ ~dateLess(occ, today)
                /\ occ.month = b.month /\ occ.day = b.day
                /\ occ.year = IF dateLess(InYear(b, today.year), today)
                              THEN today.year + 1 ELSE today.year

\* Today is 30 December and a birthday of 2 January is compared as 2 January
\* of the next year, 3 days ahead; another birthday is today and stays.
C7_Witness ==
    /\ op = "get_upcoming_birthdays"
    /\ today.month = 12 /\ today.day = 30
    /\ \E c \in 1..Len(compared) :
          /\ compared[c].occurrence = Date(today.year + 1, 1, 2)
          /\ daysBetween(compared[c].occurrence, today) = 3
          /\ BirthdayOf(compared[c].name).year = 1990
    /\ \E c \in 1..Len(compared) : compared[c].occurrence = today

LeapDay(b) == b.month = 2 /\ b.day = 29

\* The year the occurrence of a 29 February birthday is built in is not leap.
NoLeapDayAhead(t) == ~is_leap(t.year) \/ dateLess(Date(t.year, 2, 29), t)

\* C9: with a 29 February birthday in the directory and a target year that
\* is not a leap year, the query ends in an error instead of a result list,
\* and no birthday of any other contact is reported.
C9_LeapDayFails ==
    ( /\ op \in {"get_upcoming_birthdays", "birthdays"}
      /\ NoLeapDayAhead(today)
      /\ \E i \in 1..Len(book) : Len(book[i].birthday) = 1 /\ LeapDay(book[i].birthday[1]) ) =>
        /\ result = <<>>
        /\ op = "get_upcoming_birthdays" => exc.type = "ValueError"
        /\ op = "birthdays" => out = MsgValueError

\* The query failed although the other contact's birthday is today.
C9_Witness ==
    /\ op = "birthdays"
    /\ out = MsgValueError
    /\ NoLeapDayAhead(today)
    /\ \E i \in 1..Len(book) : Len(book[i].birthday) = 1 /\ LeapDay(book[i].birthday[1])
    /\ \E i \in 1..Len(book) :
          /\ Len(book[i].birthday) = 1
          /\ InYear(book[i].birthday[1], today.year) = today


\* C8: no command line is fatal to the loop: every line is handled and the
\* loop is back at reading the next command; it stops only when the command
\* token is close or exit.
C8_LoopStep ==
    (pc = "reading" /\ op' = "main") =>
        /\ pc' \in {"reading", "stopped"}
        /\ pc' = "stopped" <=> command' \in {CmdClose, CmdExit}

C8_LoopSurvives == [][C8_LoopStep]_vars

\* An empty line was read with a contact in the book, "Invalid command." was
\* printed and the loop is reading again.
C8_Witness ==
    /\ op = "main"
    /\ pc = "reading"
    /\ command = <<"G">>
    /\ out = "Invalid command."
    /\ Len(book) > 0

====
